---- MODULE Spec2Model ----
(***************************************************************************)
(* A model of sneeuwhistorie.py: the season-relative day number            *)
(* (get_seasonal_ordinal), the season label and the record calculation     *)
(* (calculate_snow_records), and the chunked retrieval loop                *)
(* (get_all_historical_data).                                              *)
(*                                                                         *)
(* Three specifications share the variables below; each one drives one     *)
(* part of the program and leaves the other parts' variables idle:         *)
(*   OrdinalSpec  get_seasonal_ordinal and the season label on dates       *)
(*   RecordSpec   calculate_snow_records on a daily series, and its caller *)
(*   FetchSpec    the chunk loop of get_all_historical_data                *)
(***************************************************************************)
EXTENDS Integers, Sequences, FiniteSets, TLC

VARIABLES
    \* --- OrdinalSpec
    opc,              \* "pick" | "pair" | "next" | "sameMD"
    date1, date2,     \* the two dates the functions are applied to
    ord1, ord2,       \* get_seasonal_ordinal of date1, date2
    lab1, lab2,       \* the 'Seizoen' label of date1, date2
    \* --- RecordSpec
    rpc,              \* "call" | "returned" | "shown"
    series,           \* the DataFrame: a sequence of [date, depth] rows
    records,          \* the value calculate_snow_records returned
    shown,            \* what the caller displayed: "records" | "warning"
    \* --- FetchSpec
    fpc,              \* "start" | "loop" | "after" | "done"
    start_date_api, end_date_api,   \* the "%Y-%m-%d" arguments
    chunk_size_years,
    start_date, end_date,           \* the parsed dates
    current_start,    \* the loop variable
    all_data_frames,  \* the successfully fetched chunks, in order
    requested,        \* every sub-range handed to fetch_single_period_data
    combined          \* the return value of get_all_historical_data

ordVars == <<opc, date1, date2, ord1, ord2, lab1, lab2>>
recVars == <<rpc, series, records, shown>>
fetVars == <<fpc, start_date_api, end_date_api, chunk_size_years,
             start_date, end_date, current_start, all_data_frames, requested,
             combined>>
vars == <<ordVars, recVars, fetVars>>

None == [kind |-> "None"]

-----------------------------------------------------------------------------
(* Bounds *)

FirstYear == 2019
LastYear == 2022
\* the daily series: at most MaxDays consecutive calendar days, each one
\* missing or with a depth of 0..MaxDepth tenths of a centimetre
MaxDays == 5
MaxDepth == 2
\* the retrieval: chunk_size_years in 1..MaxChunkYears, and a range of up to
\* MaxChunks full chunks and a last one
MaxChunkYears == 2
MaxChunks == 2

-----------------------------------------------------------------------------
(* The calendar: datetime.date, timetuple().tm_yday, comparison, + 1 day *)

IsLeap(y) == (y % 4 = 0 /\ y % 100 # 0) \/ y % 400 = 0

DaysInMonth(y, m) ==
    IF m = 2 THEN (IF IsLeap(y) THEN 29 ELSE 28)
    ELSE IF m \in {4, 6, 9, 11} THEN 30 ELSE 31

MkDate(y, m, d) == [year |-> y, month |-> m, day |-> d]

DatesOfYear(y) ==
    UNION {{MkDate(y, m, d) : d \in 1..DaysInMonth(y, m)} : m \in 1..12}

DatesOfYears(lo, hi) == UNION {DatesOfYear(y) : y \in lo..hi}

\* the days of the year before the first of month m
DaysBeforeMonth(y, m) ==
    <<0, 31, 59, 90, 120, 151, 181, 212, 243, 273, 304, 334>>[m]
        + (IF m > 2 /\ IsLeap(y) THEN 1 ELSE 0)

tm_yday(date) == DaysBeforeMonth(date.year, date.month) + date.day

DateLT(a, b) ==
    \/ a.year < b.year
    \/ a.year = b.year /\ a.month < b.month
    \/ a.year = b.year /\ a.month = b.month /\ a.day < b.day

DateLE(a, b) == a = b \/ DateLT(a, b)

NextDay(date) ==
    IF date.day < DaysInMonth(date.year, date.month)
    THEN MkDate(date.year, date.month, date.day + 1)
    ELSE IF date.month < 12 THEN MkDate(date.year, date.month + 1, 1)
    ELSE MkDate(date.year + 1, 1, 1)

-----------------------------------------------------------------------------
(* get_seasonal_ordinal *)

\* A slip: the second half of the season restarts at the day of the year.
get_seasonal_ordinal_NoCarry(date) ==
    LET jun_30_ordinal == tm_yday(MkDate(date.year, 6, 30))
    IN  IF date.month >= 7
        THEN tm_yday(date) - jun_30_ordinal
        ELSE tm_yday(date)

\* A slip: June 30 taken as day 181 of every year.
get_seasonal_ordinal_FixedJune30(date) ==
    IF date.month >= 7
    THEN tm_yday(date) - 181
    ELSE tm_yday(date) + 184

\* The try/except around date(date.year, 6, 30) never takes the except
\* branch: June 30 exists in every year.
get_seasonal_ordinal(date) ==
    LET jun_30_ordinal == tm_yday(MkDate(date.year, 6, 30))
    IN  IF date.month >= 7
        THEN tm_yday(date) - jun_30_ordinal
        ELSE LET prev_year == date.year - 1
                 prev_year_dec_31_ordinal == tm_yday(MkDate(prev_year, 12, 31))
                 prev_year_jun_30_ordinal == tm_yday(MkDate(prev_year, 6, 30))
                 days_in_prev_second_half ==
                     prev_year_dec_31_ordinal - prev_year_jun_30_ordinal
             IN  tm_yday(date) + days_in_prev_second_half

-----------------------------------------------------------------------------
(* The season label of calculate_snow_records *)

Digit(d) == <<"0", "1", "2", "3", "4", "5", "6", "7", "8", "9">>[d + 1]

\* astype(str) of a non-negative integer
RECURSIVE Str(_)
Str(n) == IF n < 10 THEN Digit(n) ELSE Str(n \div 10) \o Digit(n % 10)

\* A slip: June counted with the new season.
year_start_FromJune(date) ==
    IF date.month >= 6 THEN date.year ELSE date.year - 1

year_start(date) ==
    IF date.month >= 7 THEN date.year ELSE date.year - 1

Seizoen(date) ==
    LET year_end == year_start(date) + 1
    IN  Str(year_start(date)) \o "/" \o Str(year_end)

-----------------------------------------------------------------------------
(* OrdinalSpec: the two pure functions applied to dates *)

AllDates == DatesOfYears(FirstYear, LastYear)

Years == FirstYear..LastYear

\* The second date of a pair: the days around every month's ends and middle.
SampleDays == {1, 2, 15, 28, 29, 30, 31}

IsDate(y, m, d) == m \in 1..12 /\ d \in 1..DaysInMonth(y, m)

SameSeason(a, b) == year_start(a) = year_start(b)

OrdIdle ==
    /\ opc = "idle" /\ date1 = None /\ date2 = None
    /\ ord1 = 0 /\ ord2 = 0 /\ lab1 = "" /\ lab2 = ""

Apply(d2, pc) ==
    /\ date2' = d2
    /\ ord1' = get_seasonal_ordinal(date1)
    /\ ord2' = get_seasonal_ordinal(d2)
    /\ lab1' = Seizoen(date1)
    /\ lab2' = Seizoen(d2)
    /\ opc' = pc
    /\ UNCHANGED <<date1, recVars, fetVars>>

\* Two dates of one season.
PickSameSeason ==
    /\ opc = "pick"
    /\ \E y \in Years, m \in 1..12, d \in SampleDays :
           /\ IsDate(y, m, d)
           /\ SameSeason(date1, MkDate(y, m, d))
           /\ Apply(MkDate(y, m, d), "pair")

\* Two consecutive calendar dates.
PickNextDay ==
    /\ opc = "pick"
    /\ NextDay(date1).year \in Years
    /\ Apply(NextDay(date1), "next")

\* The same month and day in two years.
PickSameMonthDay ==
    /\ opc = "pick"
    /\ \E y \in Years :
           /\ IsDate(y, date1.month, date1.day)
           /\ Apply(MkDate(y, date1.month, date1.day), "sameMD")

OrdInit ==
    /\ opc = "pick"
    /\ date1 \in AllDates
    /\ date2 = date1
    /\ ord1 = 0 /\ ord2 = 0 /\ lab1 = "" /\ lab2 = ""

RecIdle ==
    /\ rpc = "idle" /\ series = <<>> /\ records = None /\ shown = "nothing"

FetIdle ==
    /\ fpc = "idle" /\ start_date_api = <<>> /\ end_date_api = <<>>
    /\ chunk_size_years = 0 /\ start_date = None /\ end_date = None
    /\ current_start = None /\ all_data_frames = <<>> /\ requested = <<>>
    /\ combined = None

OrdinalInit == OrdInit /\ RecIdle /\ FetIdle

OrdinalNext == PickSameSeason \/ PickNextDay \/ PickSameMonthDay

OrdinalSpec == OrdinalInit /\ [][OrdinalNext]_vars

-----------------------------------------------------------------------------
(* calculate_snow_records *)

TopN == 10

Min(a, b) == IF a <= b THEN a ELSE b

MaxOf(S) == CHOOSE x \in S : \A y \in S : y <= x

MinDate(S) == CHOOSE d \in S : \A e \in S : DateLE(d, e)

MaxDate(S) == CHOOSE d \in S : \A e \in S : DateLE(e, d)

Range(f) == {f[i] : i \in DOMAIN f}

\* date.toordinal(): the day number behind a difference of two dates
DaysBeforeYear(y) ==
    (y - 1) * 365 + (y - 1) \div 4 - (y - 1) \div 100 + (y - 1) \div 400

toordinal(date) == DaysBeforeYear(date.year) + tm_yday(date)

Pad2(n) == IF n < 10 THEN "0" \o Digit(n) ELSE Str(n)

\* strftime("%d-%m")
strftime_dm(date) == Pad2(date.day) \o "-" \o Pad2(date.month)

\* strftime("%d-%m-%Y")
strftime_dmY(date) == strftime_dm(date) \o "-" \o Str(date.year)

RowOrders(n) ==
    {p \in [1..n -> 1..n] : \A i, j \in 1..n : i # j => p[i] # p[j]}

\* sort_values(ascending=...) with the default kind='quicksort', which is
\* not a stable sort: the result is ordered by key, and rows of equal key
\* come in an order the sort's implementation decides.  The value is the
\* set of the row orders (as permutations of the positions) it can return.
sort_values(keys, ascending) ==
    {p \in RowOrders(Len(keys)) :
        \A i \in 1..(Len(keys) - 1) :
            IF ascending THEN keys[p[i]] <= keys[p[i + 1]]
                         ELSE keys[p[i]] >= keys[p[i + 1]]}

\* .head(10) of two columns taken in row order p
head(colA, colB, p) ==
    [i \in 1..Min(TopN, Len(p)) |-> <<colA[p[i]], colB[p[i]]>>]

\* A slip: days without snow count as snow days.
snow_days_of_IncludingZero(df) == SelectSeq(df, LAMBDA r : r.depth >= 0)

\* temp_df[temp_df['Max Sneeuwdiepte (cm)'] > 0.0]
snow_days_of(df) == SelectSeq(df, LAMBDA r : r.depth > 0)

\* The keys of groupby('Seizoen'), sorted.  The rows come sorted by date, so
\* the labels' order of first appearance is their sorted order.
RECURSIVE GroupKeys(_)
GroupKeys(df) ==
    IF Len(df) = 0 THEN <<>>
    ELSE LET front == GroupKeys(SubSeq(df, 1, Len(df) - 1))
             k == Seizoen(df[Len(df)].date)
         IN  IF k \in Range(front) THEN front ELSE Append(front, k)

Group(df, k) == SelectSeq(df, LAMBDA r : Seizoen(r.date) = k)

\* snow_present_days.diff().dt.days.ne(1).cumsum()
RECURSIVE consecutive_groups_of(_)
consecutive_groups_of(days) ==
    LET n == Len(days)
    IN  IF n = 0 THEN <<>>
        ELSE IF n = 1 THEN <<1>>
        ELSE LET front == consecutive_groups_of(SubSeq(days, 1, n - 1))
                 broken == toordinal(days[n]) - toordinal(days[n - 1]) # 1
             IN  Append(front, front[n - 1] + (IF broken THEN 1 ELSE 0))

\* 7. the longest unbroken period; the set of texts the code can produce
LongestPeriod(snow_days) ==
    LET snow_present_days == [i \in 1..Len(snow_days) |-> snow_days[i].date]
        consecutive_groups == consecutive_groups_of(snow_present_days)
        ids == [g \in 1..consecutive_groups[Len(consecutive_groups)] |-> g]
        counts == [g \in DOMAIN ids |->
                      Cardinality({i \in DOMAIN consecutive_groups :
                                      consecutive_groups[i] = g})]
    IN  {LET streak_lengths == [i \in DOMAIN p |-> counts[p[i]]]
             longest_streak_length == MaxOf(Range(streak_lengths))
             \* idxmax: the first row of streak_lengths holding the maximum
             first == CHOOSE i \in DOMAIN p :
                          /\ streak_lengths[i] = longest_streak_length
                          /\ \A j \in 1..(i - 1) :
                                 streak_lengths[j] # longest_streak_length
             longest_streak_group == ids[p[first]]
             members == {snow_present_days[i] : i \in
                            {j \in DOMAIN consecutive_groups :
                                consecutive_groups[j] = longest_streak_group}}
             longest_streak_start == strftime_dmY(MinDate(members))
             longest_streak_end == strftime_dmY(MaxDate(members))
         IN  Str(longest_streak_length) \o " dagen (" \o longest_streak_start
                 \o " t/m " \o longest_streak_end \o ")"
         \* value_counts() sorts the counts, largest first
         : p \in sort_values(counts, FALSE)}

\* The dictionaries the code can return for a frame with snow days.
RecordSets(temp_df, snow_days) ==
    LET allKeys == GroupKeys(temp_df)
        maxima == [i \in DOMAIN allKeys |->
                      MaxOf({r.depth : r \in Range(Group(temp_df, allKeys[i]))})]
        keys == GroupKeys(snow_days)
        DatesIn(i) == {r.date : r \in Range(Group(snow_days, keys[i]))}
        earliest_snow_all == [i \in DOMAIN keys |-> MinDate(DatesIn(i))]
        latest_snow_all == [i \in DOMAIN keys |-> MaxDate(DatesIn(i))]
        startOrd == [i \in DOMAIN keys |->
                        get_seasonal_ordinal(earliest_snow_all[i])]
        endOrd == [i \in DOMAIN keys |->
                      get_seasonal_ordinal(latest_snow_all[i])]
        startText == [i \in DOMAIN keys |-> strftime_dm(earliest_snow_all[i])]
        endText == [i \in DOMAIN keys |-> strftime_dm(latest_snow_all[i])]
        sizes == [i \in DOMAIN keys |-> Len(Group(snow_days, keys[i]))]
    IN  {[kind |-> "dict",
          Top10HoogsteMax |-> head(allKeys, maxima, p1),
          Top10VroegsteStart |-> head(startText, keys, p2),
          Top10LaatsteStart |-> head(startText, keys, p3),
          Top10VroegsteEinde |-> head(endText, keys, p4),
          Top10LaatsteEinde |-> head(endText, keys, p5),
          Top10MeesteDagen |-> head(keys, sizes, p6),
          AbsoluutLangstePeriode |-> text,
          TotaalDagenMetSneeuw |-> Len(snow_days)] :
            p1 \in sort_values(maxima, FALSE),
            p2 \in sort_values(startOrd, TRUE),
            p3 \in sort_values(startOrd, FALSE),
            p4 \in sort_values(endOrd, TRUE),
            p5 \in sort_values(endOrd, FALSE),
            p6 \in sort_values(sizes, FALSE),
            text \in LongestPeriod(snow_days)}

InvalidInput == [kind |-> "InvalidInput"]

\* A version that rejects a frame without rows.
calculate_snow_records_RejectEmpty(df) ==
    IF Len(df) = 0 THEN {InvalidInput}
    ELSE IF Len(snow_days_of(df)) = 0 THEN {None}
    ELSE RecordSets(df, snow_days_of(df))

\* The values calculate_snow_records(df) can return.
calculate_snow_records(df) ==
    LET temp_df == df
        snow_days == snow_days_of(temp_df)
    IN  IF Len(snow_days) = 0 THEN {None}
        ELSE RecordSets(temp_df, snow_days)

-----------------------------------------------------------------------------
(* RecordSpec: calculate_snow_records on a daily series, and the display *)

\* The first day of a series: two days before a season ends, and two days
\* before New Year.
RecStarts == {MkDate(2020, 6, 29), MkDate(2019, 12, 30)}

\* the mark of a day the series has no row for
Absent == MaxDepth + 1

RECURSIVE Rows(_, _, _)
Rows(d, cells, i) ==
    IF i > Len(cells) THEN <<>>
    ELSE (IF cells[i] = Absent THEN <<>>
          ELSE <<[date |-> d, depth |-> cells[i]]>>)
         \o Rows(NextDay(d), cells, i + 1)

RecInit ==
    /\ rpc = "call"
    /\ \E s \in RecStarts, cells \in [1..MaxDays -> (0..MaxDepth) \cup {Absent}] :
           series = Rows(s, cells, 1)
    /\ records = None
    /\ shown = "nothing"

\* records = calculate_snow_records(full_data)
Calculate ==
    /\ rpc = "call"
    /\ records' \in calculate_snow_records(series)
    /\ rpc' = "returned"
    /\ UNCHANGED <<series, shown, ordVars, fetVars>>

\* if records: ... else: st.warning(...)
Display ==
    /\ rpc = "returned"
    /\ shown' = IF records # None THEN "records" ELSE "warning"
    /\ rpc' = "shown"
    /\ UNCHANGED <<series, records, ordVars, fetVars>>

RecordInit == OrdIdle /\ RecInit /\ FetIdle

RecordNext == Calculate \/ Display

RecordSpec == RecordInit /\ [][RecordNext]_vars

-----------------------------------------------------------------------------
(* C1: for two dates of one season, get_seasonal_ordinal(D1) <=            *)
(* get_seasonal_ordinal(D2) exactly when D1 <= D2, leap years included.    *)
C1_MonotoneInSeason ==
    opc = "pair" => ((ord1 <= ord2) <=> DateLE(date1, date2))

\* a pair that straddles New Year, in the season that ends in leap year 2020
\* or starts in it
C1_Witness ==
    /\ opc = "pair"
    /\ date1.month = 12 /\ date2.month = 3
    /\ IsLeap(date2.year)
    /\ ord1 < ord2

(* C2: July 1 has ordinal 1; June 30 has ordinal 366 when its year is a    *)
(* leap year (the January-June half holds a February 29), 365 otherwise.   *)
C2_SeasonEnds ==
    opc # "pick" =>
        /\ (date1.month = 7 /\ date1.day = 1) => ord1 = 1
        /\ (date1.month = 6 /\ date1.day = 30) =>
               ord1 = (IF IsLeap(date1.year) THEN 366 ELSE 365)

C2_Witness ==
    /\ opc = "next"
    /\ date1 = MkDate(2020, 6, 30) /\ ord1 = 366
    /\ date2 = MkDate(2020, 7, 1) /\ ord2 = 1

(* C3: get_seasonal_ordinal does not depend on the year: the same month    *)
(* and day of any two years get the same positive number.                  *)
C3_YearIndependent ==
    opc = "sameMD" => (ord1 = ord2 /\ ord1 >= 1)

(* C4: every date is labelled "Y/Y+1", Y the date's year from July on and  *)
(* the year before otherwise, and between two consecutive dates the label  *)
(* changes exactly when the second one is July 1.                          *)
C4_SeasonLabel ==
    opc = "next" =>
        /\ LET Y == IF date1.month >= 7 THEN date1.year ELSE date1.year - 1
           IN  lab1 = Str(Y) \o "/" \o Str(Y + 1)
        /\ (lab1 # lab2) <=> (date2.month = 7 /\ date2.day = 1)

C4_Witness ==
    /\ opc = "next"
    /\ date1 = MkDate(2020, 6, 30) /\ lab1 = "2019/2020"
    /\ lab2 = "2020/2021"

-----------------------------------------------------------------------------
(* get_all_historical_data *)

\* date.fromordinal(n)
fromordinal(n) ==
    LET y == CHOOSE c \in (n \div 366)..(n \div 365 + 1) :
                 DaysBeforeYear(c) < n /\ n <= DaysBeforeYear(c + 1)
        rest == n - DaysBeforeYear(y)
        m == CHOOSE c \in 1..12 :
                 /\ DaysBeforeMonth(y, c) < rest
                 /\ rest <= DaysBeforeMonth(y, c) + DaysInMonth(y, c)
    IN  MkDate(y, m, rest - DaysBeforeMonth(y, m))

\* date + datetime.timedelta(days=n)
plus_days(date, n) == fromordinal(toordinal(date) + n)

\* A "%Y-%m-%d" string is held as its three fields, in the string's order.
strftime_Ymd(date) == <<date.year, date.month, date.day>>

ValueError == [kind |-> "ValueError"]

\* datetime.strptime(s, "%Y-%m-%d").date()
strptime_Ymd(s) ==
    IF IsDate(s[1], s[2], s[3]) THEN MkDate(s[1], s[2], s[3]) ELSE ValueError

\* What fetch_single_period_data returns when the request succeeds: a frame
\* with one row per day, from the first to the last day asked for
\* (resample('D') leaves no day out in between).
daily_cm(start, end) ==
    [kind |-> "frame",
     index |-> <<[first |-> toordinal(strptime_Ymd(start)),
                  last |-> toordinal(strptime_Ymd(end))]>>]

fetch_single_period_data(start, end, ok) ==
    IF ok THEN daily_cm(start, end) ELSE None

\* A slip: a failed chunk throws away the chunks fetched before it.
append_chunk_ResetOnFailure(frames, chunk_df) ==
    IF chunk_df # None THEN Append(frames, chunk_df) ELSE <<>>

\* if chunk_df is not None: all_data_frames.append(chunk_df)
append_chunk(frames, chunk_df) ==
    IF chunk_df # None THEN Append(frames, chunk_df) ELSE frames

\* A slip: the next chunk starts on the day the last one ended.
next_start_SameDay(chunk_end) == chunk_end

\* current_start = chunk_end + datetime.timedelta(days=1)
next_start(chunk_end) == plus_days(chunk_end, 1)

\* The days of piece p that are not days of piece k
Without(p, k) ==
    (IF p.first <= Min(p.last, k.first - 1)
     THEN <<[first |-> p.first, last |-> Min(p.last, k.first - 1)]>>
     ELSE <<>>)
    \o
    (IF (IF p.first >= k.last + 1 THEN p.first ELSE k.last + 1) <= p.last
     THEN <<[first |-> IF p.first >= k.last + 1 THEN p.first ELSE k.last + 1,
             last |-> p.last]>>
     ELSE <<>>)

RECURSIVE WithoutEach(_, _)
WithoutEach(pieces, k) ==
    IF Len(pieces) = 0 THEN <<>>
    ELSE Without(pieces[1], k) \o WithoutEach(Tail(pieces), k)

RECURSIVE WithoutAll(_, _)
WithoutAll(pieces, kept) ==
    IF Len(kept) = 0 THEN pieces
    ELSE WithoutAll(WithoutEach(pieces, kept[1]), Tail(kept))

\* pd.concat(all_data_frames), then ~index.duplicated(keep='first'): the
\* rows in order, a day kept where it comes first
RECURSIVE concat_keep_first(_)
concat_keep_first(frames) ==
    IF Len(frames) = 0 THEN <<>>
    ELSE LET front == concat_keep_first(SubSeq(frames, 1, Len(frames) - 1))
         IN  front \o WithoutAll(frames[Len(frames)].index, front)

-----------------------------------------------------------------------------
(* FetchSpec: the chunk loop *)

\* The span of one chunk beyond its first day
ChunkSpan(years) == years * 365 + 10

FetchStarts ==
    {MkDate(FirstYear, 7, 1), MkDate(FirstYear, 12, 31),
     MkDate(FirstYear + 1, 2, 28)}

\* strings that are no dates
Malformed == {<<FirstYear, 2, 30>>, <<FirstYear, 13, 1>>}

FetInit ==
    /\ fpc = "start"
    /\ chunk_size_years \in 1..MaxChunkYears
    /\ \/ \E s \in FetchStarts, k \in 0..MaxChunks, e \in -2..1 :
              /\ start_date_api = strftime_Ymd(s)
              /\ end_date_api = strftime_Ymd(
                     plus_days(s, k * (ChunkSpan(chunk_size_years) + 1) + e))
       \/ \E s \in FetchStarts, bad \in Malformed :
              \/ start_date_api = strftime_Ymd(s) /\ end_date_api = bad
              \/ start_date_api = bad /\ end_date_api = strftime_Ymd(s)
    /\ start_date = None /\ end_date = None /\ current_start = None
    /\ all_data_frames = <<>> /\ requested = <<>> /\ combined = None

\* lines 77-85: parse the two strings
Parse ==
    /\ fpc = "start"
    /\ IF strptime_Ymd(start_date_api) = ValueError
          \/ strptime_Ymd(end_date_api) = ValueError
       THEN /\ combined' = ValueError
            /\ fpc' = "done"
            /\ UNCHANGED <<start_date, end_date, current_start>>
       ELSE /\ start_date' = strptime_Ymd(start_date_api)
            /\ end_date' = strptime_Ymd(end_date_api)
            /\ current_start' = strptime_Ymd(start_date_api)
            /\ fpc' = "loop"
            /\ UNCHANGED combined
    /\ UNCHANGED <<start_date_api, end_date_api, chunk_size_years,
                   all_data_frames, requested, ordVars, recVars>>

\* lines 87-107: one pass of the while loop; ok is whether the request of
\* this chunk succeeded.  (The two dates are bound by \E over a one-element
\* set: each is computed once.)
Chunk(ok) ==
    /\ fpc = "loop"
    /\ DateLE(current_start, end_date)
    /\ \E chunk_end_candidate \in
              {plus_days(current_start, chunk_size_years * 365 + 10)} :
       \E chunk_end \in {IF DateLE(chunk_end_candidate, end_date)
                         THEN chunk_end_candidate ELSE end_date} :
       \E chunk_df \in {fetch_single_period_data(strftime_Ymd(current_start),
                                                 strftime_Ymd(chunk_end), ok)} :
           /\ requested' = Append(requested,
                                  [start |-> strftime_Ymd(current_start),
                                   end |-> strftime_Ymd(chunk_end),
                                   ok |-> chunk_df # None])
           /\ all_data_frames' = append_chunk(all_data_frames, chunk_df)
           /\ IF chunk_end = end_date
              THEN fpc' = "after" /\ UNCHANGED current_start
              ELSE \E next \in {next_start(chunk_end)} :
                       /\ current_start' = next
                       /\ fpc' = IF DateLT(end_date, next)
                                 THEN "after" ELSE "loop"
    /\ UNCHANGED <<start_date_api, end_date_api, chunk_size_years,
                   start_date, end_date, combined, ordVars, recVars>>

\* the while condition fails
LoopExit ==
    /\ fpc = "loop"
    /\ ~ DateLE(current_start, end_date)
    /\ fpc' = "after"
    /\ UNCHANGED <<start_date_api, end_date_api, chunk_size_years,
                   start_date, end_date, current_start, all_data_frames,
                   requested, combined, ordVars, recVars>>

\* lines 109-116
Finish ==
    /\ fpc = "after"
    /\ combined' = IF Len(all_data_frames) = 0 THEN None
                   ELSE [kind |-> "frame",
                         index |-> concat_keep_first(all_data_frames)]
    /\ fpc' = "done"
    /\ UNCHANGED <<start_date_api, end_date_api, chunk_size_years,
                   start_date, end_date, current_start, all_data_frames,
                   requested, ordVars, recVars>>

FetchInit == OrdIdle /\ RecIdle /\ FetInit

FetchNext == Parse \/ (\E ok \in BOOLEAN : Chunk(ok)) \/ LoopExit \/ Finish

\* The function runs to its return once called.
FetchSpec == FetchInit /\ [][FetchNext]_vars /\ WF_vars(FetchNext)

-----------------------------------------------------------------------------
(* What the claims about the records speak of, stated from the series *)

HasSnow(df) == \E i \in DOMAIN df : df[i].depth > 0

SnowDates(df) == {df[i].date : i \in {j \in DOMAIN df : df[j].depth > 0}}

\* The first days of the maximal runs of consecutive snow dates
RunStarts(S) == {d \in S : ~ \E e \in S : NextDay(e) = d}

RECURSIVE RunEnd(_, _)
RunEnd(d, S) == IF NextDay(d) \in S THEN RunEnd(NextDay(d), S) ELSE d

RunLength(d, S) ==
    Cardinality({e \in S : DateLE(d, e) /\ DateLE(e, RunEnd(d, S))})

RunText(d, S) ==
    Str(RunLength(d, S)) \o " dagen (" \o strftime_dmY(d) \o " t/m "
        \o strftime_dmY(RunEnd(d, S)) \o ")"

LongestRuns(S) ==
    {d \in RunStarts(S) : \A e \in RunStarts(S) : RunLength(e, S) <= RunLength(d, S)}

SeasonMax(df, label) ==
    MaxOf({df[i].depth : i \in {j \in DOMAIN df : Seizoen(df[j].date) = label}})

SeasonLabels(df) == {Seizoen(df[i].date) : i \in DOMAIN df}

\* the place of a season among the seasons of the series, in time
SeasonRank(df, label) ==
    Cardinality({Seizoen(df[i].date) : i \in
        {j \in DOMAIN df :
            \E k \in DOMAIN df : /\ Seizoen(df[k].date) = label
                                 /\ DateLE(df[j].date, df[k].date)}})

\* The ranking by maximum depth, but for the order of equal maxima
IsTopByMax(top, df) ==
    /\ Len(top) = Min(10, Cardinality(SeasonLabels(df)))
    /\ \A i \in DOMAIN top :
           /\ top[i][1] \in SeasonLabels(df)
           /\ top[i][2] = SeasonMax(df, top[i][1])
    /\ \A i, j \in DOMAIN top : i # j => top[i][1] # top[j][1]
    /\ \A i \in 1..(Len(top) - 1) : top[i][2] >= top[i + 1][2]
    /\ \A l \in SeasonLabels(df) :
           (\A i \in DOMAIN top : top[i][1] # l) =>
               \A i \in DOMAIN top : top[i][2] >= SeasonMax(df, l)

(* C5: for a series with rows, None is returned exactly when no row has a  *)
(* depth above 0; otherwise a dictionary whose rankings have rows.  The    *)
(* caller shows the warning exactly for None.                              *)
C5_NoneIffNoSnow ==
    (rpc # "call" /\ Len(series) > 0) =>
        /\ (records = None) <=> ~ HasSnow(series)
        /\ records # None =>
               /\ records.kind = "dict"
               /\ Len(records.Top10HoogsteMax) >= 1
               /\ Len(records.Top10VroegsteStart) >= 1
               /\ Len(records.Top10LaatsteStart) >= 1
               /\ Len(records.Top10VroegsteEinde) >= 1
               /\ Len(records.Top10LaatsteEinde) >= 1
               /\ Len(records.Top10MeesteDagen) >= 1
               /\ records.TotaalDagenMetSneeuw >= 1
        /\ rpc = "shown" => ((shown = "warning") <=> ~ HasSnow(series))

C5_Witness ==
    /\ rpc = "shown"
    /\ Len(series) = MaxDays
    /\ \A i \in DOMAIN series : series[i].depth = 0
    /\ records = None
    /\ shown = "warning"

(* C6 as claimed: an empty series makes calculate_snow_records signal      *)
(* InvalidInput, an outcome other than the None of a series without snow.  *)
C6_EmptyIsInvalidInput ==
    (rpc # "call" /\ Len(series) = 0) =>
        (records = InvalidInput /\ records # None)

(* C6 as amended: an empty series makes calculate_snow_records return      *)
(* None, the very value a series without snow days gets, and the caller    *)
(* shows the same warning.                                                 *)
C6_EmptyReturnsNone ==
    (rpc # "call" /\ Len(series) = 0) =>
        /\ records = None
        /\ rpc = "shown" => shown = "warning"

C6_Witness ==
    /\ rpc = "shown"
    /\ series = <<>>
    /\ records = None
    /\ shown = "warning"

LongestPeriodIsALongestRun ==
    (rpc # "call" /\ records # None) =>
        LET S == SnowDates(series)
        IN  \E d \in LongestRuns(S) :
                records.AbsoluutLangstePeriode = RunText(d, S)

Top10IsTopByMax ==
    (rpc # "call" /\ records # None) =>
        IsTopByMax(records.Top10HoogsteMax, series)

-----------------------------------------------------------------------------
(* What the claims about the retrieval speak of *)

\* the day number a requested "%Y-%m-%d" string stands for
DayOf(str) == toordinal(strptime_Ymd(str))

Parsed == fpc \in {"loop", "after", "done"} /\ combined # ValueError

LoopOver == fpc \in {"after", "done"} /\ combined # ValueError

\* the rows of the chunks whose request succeeded, in the order requested
SucceededRows(req) ==
    LET oks == SelectSeq(req, LAMBDA r : r.ok)
    IN  [i \in 1..Len(oks) |->
            [first |-> DayOf(oks[i].start), last |-> DayOf(oks[i].end)]]

(* C9: with start <= end, a chunk whose fetch returns None does not stop   *)
(* the retrieval: the sub-ranges after it are still requested, up to end;  *)
(* None is returned exactly when no fetch succeeded, and otherwise the     *)
(* rows of exactly the chunks that succeeded, in order.                    *)
C9_FailedChunkDoesNotAbort ==
    (LoopOver /\ DateLE(start_date, end_date)) =>
        /\ Len(requested) >= 1
        /\ DayOf(requested[Len(requested)].end) = toordinal(end_date)
        /\ \A i \in DOMAIN requested :
               (~ requested[i].ok /\ DayOf(requested[i].end) < toordinal(end_date))
                   => /\ i < Len(requested)
                      /\ DayOf(requested[i + 1].start) = DayOf(requested[i].end) + 1
        /\ Len(all_data_frames) = Len(SucceededRows(requested))
        /\ fpc = "done" =>
               /\ (combined = None) <=> (\A i \in DOMAIN requested : ~ requested[i].ok)
               /\ combined # None => combined.index = SucceededRows(requested)

C9_Witness ==
    /\ fpc = "done"
    /\ Len(requested) = 3
    /\ ~ requested[1].ok /\ requested[2].ok /\ ~ requested[3].ok
    /\ combined # None
    /\ Len(combined.index) = 1

\* The sub-ranges requested so far are consecutive pieces of [start, end],
\* and once the loop is over they are all of it.
ChunksPartitionRange ==
    Parsed =>
        LET N == chunk_size_years * 365 + 10
            first == toordinal(start_date)
            last == toordinal(end_date)
        IN  /\ first > last => requested = <<>>
            /\ Len(requested) >= 1 => DayOf(requested[1].start) = first
            /\ \A i \in DOMAIN requested :
                   /\ DayOf(requested[i].start) <= DayOf(requested[i].end)
                   /\ DayOf(requested[i].end) - DayOf(requested[i].start) <= N
                   /\ DayOf(requested[i].end) <= last
            /\ \A i \in 1..(Len(requested) - 1) :
                   DayOf(requested[i + 1].start) = DayOf(requested[i].end) + 1
            /\ \A i, j \in DOMAIN requested :
                   i < j => DayOf(requested[i].end) < DayOf(requested[j].start)
            /\ first <= last =>
                   Len(requested) <= (last - first) \div (N + 1) + 1
            /\ (LoopOver /\ first <= last) =>
                   /\ Len(requested) >= 1
                   /\ DayOf(requested[Len(requested)].end) = last

(* C10: for start <= end and chunk_size_years >= 1 the loop ends after     *)
(* finitely many fetches, and the sub-ranges requested partition            *)
(* [start, end]: the first begins at start, each next one the day after    *)
(* the one before ended, the last ends at end, no day is requested twice,  *)
(* none spans more than chunk_size_years*365+10 days beyond its first day; *)
(* with start > end nothing is fetched.                                    *)
C10_LoopEndsWithPartition ==
    /\ [] ChunksPartitionRange
    /\ <> (fpc = "done")

C10_Witness ==
    /\ fpc = "done"
    /\ Len(requested) = 3
    /\ DayOf(requested[1].end) - DayOf(requested[1].start)
           = chunk_size_years * 365 + 10
    /\ requested[3].start = requested[3].end
    /\ requested[3].end = end_date_api

====
